---- MODULE Spec2Model ----
(***************************************************************************)
(* Model of monitor.Monitor (src/monitor/monitor.go): the verification     *)
(* core that consumes confirmed BTC headers and checkpoints from the       *)
(* BTCScanner, verifies each checkpoint against its Babylon counterpart    *)
(* and advances the current epoch.                                         *)
(*                                                                         *)
(* Goroutines: the callers of Start (each runs the event loop inside its   *)
(* own call), the callers of Stop, the runBTCScanner goroutines and the    *)
(* runLivenessChecker goroutines.  Start is split at every access to the   *)
(* shared fields started, wg, quit, curEpoch and checkpointChecklist, so   *)
(* that every interleaving of the goroutines is a behaviour.  The call of  *)
(* VerifyCheckpoint is one step: it reads curEpoch as one snapshot.        *)
(*                                                                         *)
(* The Scanner, the Querier, EpochInfo.VerifyMultiSig, the bookkeeper and  *)
(* runLivenessChecker live in other packages/files; they are modelled by   *)
(* their contract.                                                         *)
(***************************************************************************)
EXTENDS Integers, Sequences, FiniteSets, TLC

\* ------------------------------------------------------------------ bounds
\* events (headers and checkpoints) the Scanner delivers in one behaviour
MaxEvents == 2
\* largest epoch number of a checkpoint on BTC / largest epoch reached
MaxEpoch == 1
\* calls of Start made in one behaviour
MaxStartCalls == 2

\* calls of Stop made in one behaviour
MaxStopCalls == 2

\* validators in the genesis validator set given to New
MaxValidators == 3

\* goroutines that call Start
Callers == {"c1", "c2"}

\* validator sets (rosters), LastCommitHash values
ValSets == {"V1", "V2"}

\* the validator set Babylon records for an epoch (epoch 0: the genesis set);
\* consecutive epochs have different sets
EpochValSet(epoch) == IF epoch % 2 = 0 THEN "V1" ELSE "V2"
Hashes == {"h1", "h2"}

\* ------------------------------------------------------------------- data
\* a BLS multi-signature is abstracted by the validator set whose quorum
\* signed (epoch, hash), or "bad" when no quorum of any set signed it
Sigs == ValSets \cup {"bad"}

\* checkpointingtypes.RawCheckpoint
RawCheckpoints == [epoch : 0..MaxEpoch, hash : Hashes, sig : Sigs]

\* types.EpochInfo
EpochInfos == [num : 0..(MaxEpoch + 1), valSet : ValSets]

QueryErr == [err |-> "QueryFailure"]
NoCkpt == [epoch |-> -1]

\* types.NewEpochInfo(epoch, valSet)
NewEpochInfo(epoch, valSet) == [num |-> epoch, valSet |-> valSet]

\* EpochInfo.VerifyMultiSig(ckpt): the aggregate signature validates against
\* (epoch, hash) and the signers reach the quorum of this epoch's roster
VerifyMultiSig(ei, ckpt) == ckpt.sig = ei.valSet

\* Querier.QueryRawCheckpoint(epoch): the answers the Babylon node can give
QueryRawCheckpoint(epoch) ==
    {QueryErr} \cup {[epoch |-> epoch, hash |-> h, sig |-> s] : h \in Hashes, s \in Sigs}

\* Querier.QueryInfoForNextEpoch(epoch): the answers the Babylon node can give
QueryInfoForNextEpoch(epoch) ==
    {QueryErr, NewEpochInfo(epoch, EpochValSet(epoch))}

\* Querier.ContainsBTCHeader(hash): the answers the Babylon node can give
ContainsBTCHeader == {"true", "false", "QueryFailure"}

\* ------------------------------------------------- validator set ordering
\* ValidatorWithBlsKey.ValidatorAddress: a bech32 string. ok says whether
\* sdk.ValAddressFromBech32 parses it; hi is the number held by the first 8
\* bytes of the decoded address and lo stands for the remaining 12 bytes.
\* a1 and a2 are distinct addresses with the same first 8 bytes.
ValidatorAddresses ==
    {[ok |-> TRUE, hi |-> 1, lo |-> 0], [ok |-> TRUE, hi |-> 1, lo |-> 1],
     [ok |-> TRUE, hi |-> 2, lo |-> 0], [ok |-> TRUE, hi |-> 3, lo |-> 0],
     [ok |-> FALSE, hi |-> 0, lo |-> 0]}

\* validator sets of at most MaxValidators distinct validators, in any order
ValidatorSets ==
    {vs \in UNION {[1..n -> ValidatorAddresses] : n \in 0..MaxValidators} :
        \A i, j \in 1..Len(vs) : vs[i] = vs[j] => i = j}

\* sdk.BigEndianToUint64(addr): binary.BigEndian.Uint64 reads the first 8
\* bytes of the 20-byte address
BigEndianToUint64(addr) == addr.hi

\* the less function handed to sort.Slice over the slice vs at indexes i, j:
\* parses both addresses, panics when one does not parse, compares BigEndianToUint64 of the two
Less(vs, i, j) ==
    IF ~vs[i].ok \/ ~vs[j].ok THEN "panic"
    ELSE IF BigEndianToUint64(vs[i]) < BigEndianToUint64(vs[j])
         THEN "true" ELSE "false"

Swap(vs, i, j) == [vs EXCEPT ![i] = vs[j], ![j] = vs[i]]

\* inner loop of sort's insertion sort:
\*   for j := i; j > a && less(j, j-1); j-- { swap(j, j-1) }
RECURSIVE SinkDown(_, _)
SinkDown(r, j) ==
    IF r.panic \/ j <= 1 THEN r
    ELSE LET l == Less(r.set, j, j - 1) IN
         IF l = "panic" THEN [r EXCEPT !.panic = TRUE]
         ELSE IF l = "true"
              THEN SinkDown([r EXCEPT !.set = Swap(r.set, j, j - 1)], j - 1)
              ELSE r

\* outer loop of sort's insertion sort: for i := a + 1; i < b; i++
RECURSIVE InsertionSort(_, _)
InsertionSort(r, i) ==
    IF r.panic \/ i > Len(r.set) THEN r
    ELSE InsertionSort(SinkDown(r, i), i + 1)

\* GetSortedValSet: sort.Slice sorts a slice of at most 12 elements by
\* insertion sort; a panic in the less function ends the process
GetSortedValSet(valSet) ==
    LET r == InsertionSort([panic |-> FALSE, set |-> valSet], 2) IN
    IF r.panic THEN [state |-> "panic", set |-> <<>>]
    ELSE [state |-> "sorted", set |-> r.set]

\* the genesis validator set of the monitor whose run loop is modelled
GenesisValSet ==
    <<[ok |-> TRUE, hi |-> 2, lo |-> 0], [ok |-> TRUE, hi |-> 1, lo |-> 0]>>

\* ------------------------------------------------------------------ state
VARIABLES
    cfgLiveness,   \* m.Cfg.LivenessChecker
    curEpoch,      \* m.curEpoch
    checklist,     \* m.checkpointChecklist, in append order
    started,       \* m.started
    quit,          \* m.quit: "open" or "closed"
    wg,            \* m.wg counter
    pc,            \* position of each caller of Start
    ckpt,          \* handleNewConfirmedCheckpoint's ckpt, per caller
    nextEpochNum,  \* handleNewConfirmedCheckpoint's nextEpochNum, per caller
    scanRun,       \* runBTCScanner goroutines inside BTCScanner.Start()
    scanStarts,    \* calls of BTCScanner.Start() so far
    scanStopped,   \* BTCScanner.Stop() has completed
    liveRun,       \* runLivenessChecker goroutines running
    stopPc,        \* position of the caller of Stop
    nStops,        \* calls of Stop so far
    panicked,      \* the process died in a panic
    nEvents,       \* events received from the Scanner's channels so far
    nCalls,        \* calls of Start so far
    nRecordable,   \* checkpoint events whose verification ended in success or
                   \* in InconsistentLastCommitHash while liveness was enabled
    evLimit,       \* events the Scanner delivers in this behaviour
    genesis,       \* genesisInfo.GetBLSKeySet(): the validator set given to New
    sortedGenesis, \* what GetSortedValSet made of it ("pending" before the call)
    obs            \* what the last step reported (log line / return value)

vars == <<cfgLiveness, curEpoch, checklist, started, quit, wg, pc, ckpt,
          nextEpochNum, scanRun, scanStarts, scanStopped, liveRun, stopPc,
          nStops, panicked, nEvents, nCalls, nRecordable, evLimit, genesis,
          sortedGenesis, obs>>

\* what New receives and no method of the monitor changes
cfgVars == <<cfgLiveness, evLimit, genesis, sortedGenesis>>

monitorVars == <<curEpoch, checklist, started, quit, wg>>
scannerVars == <<scanRun, scanStarts, scanStopped>>
localVars == <<ckpt, nextEpochNum>>
stopVars == <<stopPc, nStops, panicked>>

\* positions inside Start at which the caller is inside the for loop
LoopPcs == {"for", "select", "addOk", "addBad", "l135", "l136"}
\* positions inside handleNewConfirmedCheckpoint
HandlerPcs == {"addOk", "addBad", "l135", "l136"}

NoObs ==
    [op |-> "none", res |-> "-", err |-> "-", epochOK |-> FALSE,
     sigOK |-> FALSE, queried |-> FALSE, queryOK |-> FALSE, bbnSigOK |-> FALSE, hashEq |-> FALSE]

\* ------------------------------------------------------------ constructor
\* New: epoch 0 with the (sorted) genesis validator set, empty checklist,
\* open quit channel, started = false
Constructed ==
    /\ cfgLiveness \in BOOLEAN
    /\ curEpoch = NewEpochInfo(0, EpochValSet(0))
    /\ checklist = <<>>
    /\ started = FALSE
    /\ quit = "open"
    /\ wg = 0
    /\ pc = [t \in Callers |-> "idle"]
    /\ ckpt = [t \in Callers |-> NoCkpt]
    /\ nextEpochNum = [t \in Callers |-> 0]
    /\ scanRun = 0
    /\ scanStarts = 0
    /\ scanStopped = FALSE
    /\ liveRun = 0
    /\ stopPc = "idle"
    /\ nStops = 0
    /\ panicked = FALSE
    /\ nEvents = 0
    /\ nCalls = 0
    /\ nRecordable = 0
    /\ obs = NoObs

Init ==
    /\ Constructed
    /\ evLimit = MaxEvents
    /\ genesis = GenesisValSet
    /\ sortedGenesis = GetSortedValSet(genesis)

\* ------------------------------------------------------------ pure parts
\* GetCurrentEpoch
GetCurrentEpoch == curEpoch.num

\* VerifyCheckpoint with the BLS check of the BTC checkpoint moved before the
\* epoch check
VerifyCheckpoint_SigFirst(ei, btcCkpt, resp) ==
    IF ~VerifyMultiSig(ei, btcCkpt) THEN "InvalidSig"
    ELSE IF ei.num # btcCkpt.epoch THEN "InvalidEpochNum"
    ELSE IF resp = QueryErr THEN "QueryFailure"
    ELSE IF ~VerifyMultiSig(ei, resp) THEN "InvalidSig"
    ELSE IF resp.hash # btcCkpt.hash THEN "InconsistentLastCommitHash"
    ELSE "nil"

\* VerifyCheckpoint without the BLS check of Babylon's checkpoint
VerifyCheckpoint_NoBbnSig(ei, btcCkpt, resp) ==
    IF ei.num # btcCkpt.epoch THEN "InvalidEpochNum"
    ELSE IF ~VerifyMultiSig(ei, btcCkpt) THEN "InvalidSig"
    ELSE IF resp = QueryErr THEN "QueryFailure"
    ELSE IF resp.hash # btcCkpt.hash THEN "InconsistentLastCommitHash"
    ELSE "nil"

\* VerifyCheckpoint with the LastCommitHash comparison moved before the BLS
\* check of Babylon's checkpoint
VerifyCheckpoint_HashFirst(ei, btcCkpt, resp) ==
    IF ei.num # btcCkpt.epoch THEN "InvalidEpochNum"
    ELSE IF ~VerifyMultiSig(ei, btcCkpt) THEN "InvalidSig"
    ELSE IF resp = QueryErr THEN "QueryFailure"
    ELSE IF resp.hash # btcCkpt.hash THEN "InconsistentLastCommitHash"
    ELSE IF ~VerifyMultiSig(ei, resp) THEN "InvalidSig"
    ELSE "nil"

\* VerifyCheckpoint(btcCkpt) against the epoch info ei; resp is the answer
\* of QueryRawCheckpoint(btcCkpt.EpochNum).  "nil" is success.
VerifyCheckpoint(ei, btcCkpt, resp) ==
    IF ei.num # btcCkpt.epoch THEN "InvalidEpochNum"
    ELSE IF ~VerifyMultiSig(ei, btcCkpt) THEN "InvalidSig"
    ELSE IF resp = QueryErr THEN "QueryFailure"
    ELSE IF ~VerifyMultiSig(ei, resp) THEN "InvalidSig"
    ELSE IF resp.hash # btcCkpt.hash THEN "InconsistentLastCommitHash"
    ELSE "nil"

\* UpdateEpochInfo that moves to the next epoch although the query failed
UpdateEpochInfo_IgnoreErr(cur, ei) ==
    IF ei = QueryErr THEN NewEpochInfo(cur.num + 1, cur.valSet) ELSE ei

\* UpdateEpochInfo(epoch): the new value of m.curEpoch for the answer ei of
\* QueryInfoForNextEpoch(epoch)
UpdateEpochInfo(cur, ei) == IF ei = QueryErr THEN cur ELSE ei

\* CheckpointsBookkeeper.Add(record): the record is appended, whatever the
\* checklist holds already
BookkeeperAdd(list, record) == Append(list, record)

\* addCheckpointToCheckList that keeps at most one record per epoch
addCheckpointToCheckList_OncePerEpoch(list, c) ==
    IF \E i \in 1..Len(list) : list[i].epoch = c.epoch
    THEN list ELSE BookkeeperAdd(list, c)

\* line 178-181, addCheckpointToCheckList: the record is handed to
\* m.checkpointChecklist.Add
addCheckpointToCheckList(list, c) == BookkeeperAdd(list, c)

\* AfterVerify that records every checkpoint, whatever the verification said
AfterVerify_RecordAll(res) ==
    IF res # "nil"
    THEN IF cfgLiveness THEN "addBad" ELSE "for"
    ELSE IF cfgLiveness THEN "addOk" ELSE "l135"

\* AfterVerify that leaves the event loop when a fork is found
AfterVerify_StopOnFork(res) ==
    IF res = "InconsistentLastCommitHash" THEN "wait"
    ELSE IF res # "nil" THEN "for"
    ELSE IF cfgLiveness THEN "addOk" ELSE "l135"

\* the position after VerifyCheckpoint returned res
AfterVerify(res) ==
    IF res = "InconsistentLastCommitHash"
    THEN IF cfgLiveness THEN "addBad" ELSE "for"
    ELSE IF res # "nil" THEN "for"
    ELSE IF cfgLiveness THEN "addOk" ELSE "l135"

\* VerifyCheckpoint that asks Babylon before checking the BTC checkpoint's BLS
QueriesBabylon_BeforeSig(ei, btcCkpt) == ei.num = btcCkpt.epoch

\* line 151-161: VerifyCheckpoint reaches the call of QueryRawCheckpoint
QueriesBabylon(ei, btcCkpt) ==
    ei.num = btcCkpt.epoch /\ VerifyMultiSig(ei, btcCkpt)

\* the value handleNewConfirmedCheckpoint returns when it returns right
\* after VerifyCheckpoint ("pending" while the handler goes on)
ErrAfterVerify(res) ==
    IF res = "InconsistentLastCommitHash"
    THEN IF cfgLiveness THEN "pending" ELSE "verification failed"
    ELSE IF res # "nil" THEN "nil" ELSE "pending"

\* --------------------------------------------------------------- Start
\* line 61-64: m.started.Load(); return when already started
StartLoad(t) ==
    /\ ~panicked
    /\ pc[t] = "idle"
    /\ nCalls < MaxStartCalls
    /\ nCalls' = nCalls + 1
    /\ pc' = [pc EXCEPT ![t] = IF started THEN "idle" ELSE "l66"]
    /\ obs' = NoObs
    /\ UNCHANGED <<cfgVars, monitorVars, localVars, scannerVars, liveRun,
                   stopVars, nEvents, nRecordable>>

\* line 66: m.started.Store(true)
StartStore(t) ==
    /\ ~panicked
    /\ pc[t] = "l66"
    /\ started' = TRUE
    /\ pc' = [pc EXCEPT ![t] = "l70"]
    /\ obs' = NoObs
    /\ UNCHANGED <<cfgVars, curEpoch, checklist, quit, wg, localVars,
                   scannerVars, liveRun, stopVars, nEvents, nCalls, nRecordable>>

\* line 70-71: m.wg.Add(1); go m.runBTCScanner(), which calls BTCScanner.Start()
StartScanner(t) ==
    /\ ~panicked
    /\ pc[t] = "l70"
    /\ wg' = wg + 1
    /\ scanRun' = scanRun + 1
    /\ scanStarts' = scanStarts + 1
    /\ pc' = [pc EXCEPT ![t] = "l73"]
    /\ obs' = NoObs
    /\ UNCHANGED <<cfgVars, curEpoch, checklist, started, quit, localVars,
                   scanStopped, liveRun, stopVars, nEvents, nCalls, nRecordable>>

\* line 73-77: the liveness checker goroutine, when configured
StartLiveness(t) ==
    /\ ~panicked
    /\ pc[t] = "l73"
    /\ IF cfgLiveness
       THEN wg' = wg + 1 /\ liveRun' = liveRun + 1
       ELSE UNCHANGED <<wg, liveRun>>
    /\ pc' = [pc EXCEPT ![t] = "for"]
    /\ obs' = NoObs
    /\ UNCHANGED <<cfgVars, curEpoch, checklist, started, quit, localVars,
                   scannerVars, stopVars, nEvents, nCalls, nRecordable>>

\* line 79: for m.started.Load()
LoopTest(t) ==
    /\ ~panicked
    /\ pc[t] = "for"
    /\ pc' = [pc EXCEPT ![t] = IF started THEN "select" ELSE "wait"]
    /\ obs' = NoObs
    /\ UNCHANGED <<cfgVars, monitorVars, localVars, scannerVars, liveRun,
                   stopVars, nEvents, nCalls, nRecordable>>

\* line 81-83: case <-m.quit
SelectQuit(t) ==
    /\ ~panicked
    /\ pc[t] = "select"
    /\ quit = "closed"
    /\ started' = FALSE
    /\ pc' = [pc EXCEPT ![t] = "for"]
    /\ obs' = NoObs
    /\ UNCHANGED <<cfgVars, curEpoch, checklist, quit, wg, localVars,
                   scannerVars, liveRun, stopVars, nEvents, nCalls, nRecordable>>

\* the Scanner has an event ready on one of its channels
EventReady == scanRun > 0 /\ nEvents < evLimit

\* checkHeaderConsistency that reports a failed query as a missing header
checkHeaderConsistency_ErrAsAbsent(contains) ==
    IF contains = "true" THEN "nil" ELSE "HeaderNotRecognized"

\* line 193-205, checkHeaderConsistency: the error returned for each answer
\* of ContainsBTCHeader
checkHeaderConsistency(contains) ==
    CASE contains = "QueryFailure" -> "QueryFailure"
      [] contains = "false" -> "HeaderNotRecognized"
      [] OTHER -> "nil"

\* line 84-89 with handleNewConfirmedHeader / checkHeaderConsistency
\* (107-109, 193-205): no field of the monitor is written
SelectHeader(t) ==
    /\ ~panicked
    /\ pc[t] = "select"
    /\ EventReady
    /\ nEvents' = nEvents + 1
    /\ \E contains \in ContainsBTCHeader :
          obs' = [NoObs EXCEPT !.op = "header", !.res = contains,
                               !.err = checkHeaderConsistency(contains)]
    /\ pc' = [pc EXCEPT ![t] = "for"]
    /\ UNCHANGED <<cfgVars, monitorVars, localVars, scannerVars, liveRun,
                   stopVars, nCalls, nRecordable>>

\* line 90-91, 112-127: receive a checkpoint and verify it
SelectCheckpoint(t) ==
    /\ ~panicked
    /\ pc[t] = "select"
    /\ EventReady
    /\ nEvents' = nEvents + 1
    /\ \E c \in RawCheckpoints : \E resp \in QueryRawCheckpoint(c.epoch) :
          LET res == VerifyCheckpoint(curEpoch, c, resp)
              to == AfterVerify(res)
          IN /\ pc' = [pc EXCEPT ![t] = to]
             /\ ckpt' = [ckpt EXCEPT ![t] = IF to = "for" THEN NoCkpt ELSE c]
             /\ nRecordable' = IF cfgLiveness /\ res \in {"nil", "InconsistentLastCommitHash"}
                                THEN nRecordable + 1 ELSE nRecordable
             /\ obs' = [op |-> "verify", res |-> res,
                        err |-> ErrAfterVerify(res),
                        epochOK |-> (c.epoch = curEpoch.num),
                        sigOK |-> VerifyMultiSig(curEpoch, c),
                        queried |-> QueriesBabylon(curEpoch, c),
                        queryOK |-> (resp # QueryErr),
                        bbnSigOK |-> (resp # QueryErr /\ VerifyMultiSig(curEpoch, resp)),
                        hashEq |-> (resp # QueryErr /\ resp.hash = c.hash)]
    /\ UNCHANGED <<cfgVars, monitorVars, nextEpochNum, scannerVars, liveRun,
                   stopVars, nCalls>>

\* line 117-122: record the conflicting checkpoint, return the error
AddConflicting(t) ==
    /\ ~panicked
    /\ pc[t] = "addBad"
    /\ checklist' = addCheckpointToCheckList(checklist, ckpt[t])
    /\ pc' = [pc EXCEPT ![t] = "for"]
    /\ ckpt' = [ckpt EXCEPT ![t] = NoCkpt]
    /\ obs' = [NoObs EXCEPT !.op = "add",
                            !.res = "InconsistentLastCommitHash",
                            !.err = "verification failed"]
    /\ UNCHANGED <<cfgVars, curEpoch, started, quit, wg, nextEpochNum,
                   scannerVars, liveRun, stopVars, nEvents, nCalls, nRecordable>>

\* line 129-131: record the verified checkpoint
AddVerified(t) ==
    /\ ~panicked
    /\ pc[t] = "addOk"
    /\ checklist' = addCheckpointToCheckList(checklist, ckpt[t])
    /\ pc' = [pc EXCEPT ![t] = "l135"]
    /\ obs' = [NoObs EXCEPT !.op = "add", !.res = "nil", !.err = "pending"]
    /\ UNCHANGED <<cfgVars, curEpoch, started, quit, wg, localVars,
                   scannerVars, liveRun, stopVars, nEvents, nCalls, nRecordable>>

\* line 135: nextEpochNum := m.GetCurrentEpoch() + 1
ReadNextEpoch(t) ==
    /\ ~panicked
    /\ pc[t] = "l135"
    /\ nextEpochNum' = [nextEpochNum EXCEPT ![t] = GetCurrentEpoch + 1]
    /\ pc' = [pc EXCEPT ![t] = "l136"]
    /\ obs' = NoObs
    /\ UNCHANGED <<cfgVars, monitorVars, ckpt, scannerVars, liveRun, stopVars,
                   nEvents, nCalls, nRecordable>>

\* line 136-141 with UpdateEpochInfo (183-191)
AdvanceEpoch(t) ==
    /\ ~panicked
    /\ pc[t] = "l136"
    /\ \E ei \in QueryInfoForNextEpoch(nextEpochNum[t]) :
          /\ ei # QueryErr => ei.num <= MaxEpoch + 1
          /\ curEpoch' = UpdateEpochInfo(curEpoch, ei)
          /\ obs' = [NoObs EXCEPT !.op = "update",
                                  !.queryOK = (ei # QueryErr),
                                  !.err = IF ei = QueryErr
                                          THEN "failed to update" ELSE "nil"]
    /\ pc' = [pc EXCEPT ![t] = "for"]
    /\ nextEpochNum' = [nextEpochNum EXCEPT ![t] = 0]
    /\ ckpt' = [ckpt EXCEPT ![t] = NoCkpt]
    /\ UNCHANGED <<cfgVars, checklist, started, quit, wg, scannerVars,
                   liveRun, stopVars, nEvents, nCalls, nRecordable>>

\* Start that returns without waiting for the goroutines it launched
StartReturn_NoWait(t) ==
    /\ ~panicked
    /\ pc[t] = "wait"
    /\ pc' = [pc EXCEPT ![t] = "idle"]
    /\ obs' = NoObs
    /\ UNCHANGED <<cfgVars, monitorVars, localVars, scannerVars, liveRun,
                   stopVars, nEvents, nCalls, nRecordable>>

\* line 98-100: m.wg.Wait(), then Start returns
StartReturn(t) ==
    /\ ~panicked
    /\ pc[t] = "wait"
    /\ wg = 0
    /\ pc' = [pc EXCEPT ![t] = "idle"]
    /\ obs' = NoObs
    /\ UNCHANGED <<cfgVars, monitorVars, localVars, scannerVars, liveRun,
                   stopVars, nEvents, nCalls, nRecordable>>

\* ------------------------------------------------------ other goroutines
\* line 102-105: BTCScanner.Start() returns once the Scanner was stopped,
\* then m.wg.Done()
ScannerDone ==
    /\ ~panicked
    /\ scanRun > 0
    /\ scanStopped
    /\ scanRun' = scanRun - 1
    /\ wg' = wg - 1
    /\ obs' = NoObs
    /\ UNCHANGED <<cfgVars, curEpoch, checklist, started, quit, pc, localVars,
                   scanStarts, scanStopped, liveRun, stopVars, nEvents, nCalls,
                   nRecordable>>

\* runLivenessChecker returns once quit is closed, then m.wg.Done()
LivenessDone ==
    /\ ~panicked
    /\ liveRun > 0
    /\ quit = "closed"
    /\ liveRun' = liveRun - 1
    /\ wg' = wg - 1
    /\ obs' = NoObs
    /\ UNCHANGED <<cfgVars, curEpoch, checklist, started, quit, pc, localVars,
                   scannerVars, stopVars, nEvents, nCalls, nRecordable>>

\* ---------------------------------------------------------------- Stop
\* close that leaves a closed channel alone
CloseQuit_Once(q) == "closed"

\* close(m.quit): closing a closed channel panics
CloseQuit(q) == IF q = "closed" THEN "panic" ELSE "closed"

\* line 226: close(m.quit)
StopClose ==
    /\ ~panicked
    /\ stopPc = "idle"
    /\ nStops < MaxStopCalls
    /\ nStops' = nStops + 1
    /\ IF CloseQuit(quit) = "panic"
       THEN /\ panicked' = TRUE
            /\ stopPc' = "panicked"
            /\ UNCHANGED quit
       ELSE /\ quit' = "closed"
            /\ stopPc' = "l227"
            /\ UNCHANGED panicked
    /\ obs' = NoObs
    /\ UNCHANGED <<cfgVars, curEpoch, checklist, started, wg, pc, localVars,
                   scannerVars, liveRun, nEvents, nCalls, nRecordable>>

\* Stop that returns without stopping the Scanner
StopScanner_NoStop ==
    /\ ~panicked
    /\ stopPc = "l227"
    /\ stopPc' = "idle"
    /\ obs' = [NoObs EXCEPT !.op = "stop-returned"]
    /\ UNCHANGED <<cfgVars, monitorVars, pc, localVars, scannerVars,
                   liveRun, nStops, panicked, nEvents, nCalls, nRecordable>>

\* line 227-228: m.BTCScanner.Stop(), then Stop returns
StopScanner ==
    /\ ~panicked
    /\ stopPc = "l227"
    /\ scanStopped' = TRUE
    /\ stopPc' = "idle"
    /\ obs' = [NoObs EXCEPT !.op = "stop-returned"]
    /\ UNCHANGED <<cfgVars, monitorVars, pc, localVars, scanRun, scanStarts,
                   liveRun, nStops, panicked, nEvents, nCalls, nRecordable>>

\* ------------------------------------------------------- specification
Next ==
    \/ \E t \in Callers : StartLoad(t)
    \/ \E t \in Callers : StartStore(t)
    \/ \E t \in Callers : StartScanner(t)
    \/ \E t \in Callers : StartLiveness(t)
    \/ \E t \in Callers : LoopTest(t)
    \/ \E t \in Callers : SelectQuit(t)
    \/ \E t \in Callers : SelectHeader(t)
    \/ \E t \in Callers : SelectCheckpoint(t)
    \/ \E t \in Callers : AddConflicting(t)
    \/ \E t \in Callers : AddVerified(t)
    \/ \E t \in Callers : ReadNextEpoch(t)
    \/ \E t \in Callers : AdvanceEpoch(t)
    \/ \E t \in Callers : StartReturn(t)
    \/ ScannerDone
    \/ LivenessDone
    \/ StopClose
    \/ StopScanner

Spec == Init /\ [][Next]_vars

\* the same monitor with a Scanner that delivers one more event
InitLong ==
    /\ Constructed
    /\ evLimit = MaxEvents + 1
    /\ genesis = GenesisValSet
    /\ sortedGenesis = GetSortedValSet(genesis)

SpecLong == InitLong /\ [][Next]_vars

\* ------------------------------------------------------------- scheduling
\* the steps of one call of Start after the call was made
CallerStep(t) ==
    \/ StartStore(t) \/ StartScanner(t) \/ StartLiveness(t) \/ LoopTest(t)
    \/ SelectHeader(t) \/ SelectCheckpoint(t) \/ AddConflicting(t)
    \/ AddVerified(t) \/ ReadNextEpoch(t) \/ AdvanceEpoch(t) \/ StartReturn(t)

\* the Go scheduler runs every runnable goroutine again and again; a select
\* whose quit case is ready every time it is reached picks it in the end
\* (the ready case is chosen at random). Calls of Start and Stop are the
\* environment's choice and carry no fairness.
Fairness ==
    /\ \A t \in Callers : WF_vars(CallerStep(t))
    /\ \A t \in Callers : SF_vars(SelectQuit(t))
    /\ WF_vars(ScannerDone)
    /\ WF_vars(LivenessDone)
    /\ WF_vars(StopScanner)

FairSpec == Init /\ [][Next]_vars /\ Fairness

\* ------------------------------------------- New's call of GetSortedValSet
\* New is called with any genesis validator set; the sort has not run yet
InitSort ==
    /\ Constructed
    /\ evLimit = MaxEvents
    /\ genesis \in ValidatorSets
    /\ sortedGenesis = [state |-> "pending", set |-> <<>>]

\* line 42: sortedGenesisValSet := GetSortedValSet(genesisInfo.GetBLSKeySet())
NewSort ==
    /\ sortedGenesis.state = "pending"
    /\ sortedGenesis' = GetSortedValSet(genesis)
    /\ UNCHANGED <<cfgLiveness, evLimit, genesis, monitorVars, pc,
                   localVars, scannerVars, liveRun, stopVars, nEvents, nCalls,
                   nRecordable, obs>>

NextSort == NewSort

SpecSort == InitSort /\ [][NextSort]_vars

\* ---------------------------------------------------------------- claims
Inconsistent == "InconsistentLastCommitHash"

\* callers of Start inside the event loop / inside the checkpoint handler
InLoop == {t \in Callers : pc[t] \in LoopPcs}
InHandler == {t \in Callers : pc[t] \in HandlerPcs}

\* C1: a checkpoint event that was verified against epoch e leaves the
\* current epoch at e (next-epoch query failed) or at e + 1 when its handler
\* returns: the epoch is never moved by more than one per event and no epoch
\* is skipped.  (ckpt[t].epoch is the epoch the event was verified against.)
C1_EpochAdvancesByOne ==
    [][\A t \in Callers :
          (pc[t] = "l136" /\ pc'[t] = "for")
             => curEpoch'.num \in {ckpt[t].epoch, ckpt[t].epoch + 1}]_vars

\* C2: the checklist holds exactly one entry per checkpoint event that was
\* resolved to success or InconsistentLastCommitHash with liveness tracking
\* enabled (counting the handlers that are about to append), and stays empty
\* when liveness tracking is disabled.
C2_LedgerIffRecordable ==
    /\ Len(checklist) + Cardinality({t \in Callers : pc[t] \in {"addOk", "addBad"}})
          = nRecordable
    /\ ~cfgLiveness => checklist = <<>>

C2_Witness ==
    /\ cfgLiveness
    /\ Len(checklist) = 1
    /\ obs.op = "verify"
    /\ obs.res = "InvalidSig"
    /\ InHandler = {}

\* C3: VerifyCheckpoint returns InvalidEpochNum exactly when the epoch of the
\* candidate differs from the current epoch, whatever its signature and
\* whatever Babylon answers.
C3_InvalidEpochIff ==
    obs.op = "verify" => (obs.res = "InvalidEpochNum" <=> ~obs.epochOK)

C3_Witness ==
    /\ obs.op = "verify"
    /\ obs.res = "InvalidEpochNum"
    /\ obs.sigOK
    /\ obs.bbnSigOK
    /\ curEpoch.num = 1

\* C4 as stated: VerifyCheckpoint succeeds exactly when both signature checks
\* pass and the two LastCommitHash values are equal.
C4_SuccessIffSigsAndHash ==
    obs.op = "verify" => (obs.res = "nil" <=> (obs.sigOK /\ obs.bbnSigOK /\ obs.hashEq))

\* C4 amended: VerifyCheckpoint succeeds exactly when the candidate's epoch is
\* the current epoch, both signature checks pass and the two LastCommitHash
\* values are equal; VerifyCheckpoint does not change the current epoch, which
\* changes only in the handler of a checkpoint whose verification succeeded.
C4_SuccessIffEpochSigsAndHash ==
    /\ [](obs.op = "verify"
            => (obs.res = "nil"
                  <=> (obs.epochOK /\ obs.sigOK /\ obs.bbnSigOK /\ obs.hashEq)))
    /\ [][obs'.op = "verify" => curEpoch' = curEpoch]_vars
    /\ [][curEpoch' # curEpoch => \E t \in Callers : pc[t] = "l136" /\ pc'[t] = "for"]_vars
    /\ [][\A t \in Callers :
            (pc[t] = "select" /\ pc'[t] \in {"addOk", "l135"}) => obs'.res = "nil"]_vars

C4_Witness ==
    /\ obs.op = "verify"
    /\ obs.res = "nil"
    /\ curEpoch.num = 1

\* C5 as stated: VerifyCheckpoint returns InconsistentLastCommitHash exactly
\* when both signatures are valid under the current roster and the two
\* LastCommitHash values differ.
C5_InconsistentIffSigsAndHash ==
    obs.op = "verify"
       => (obs.res = Inconsistent
             <=> (obs.sigOK /\ obs.bbnSigOK /\ obs.queryOK /\ ~obs.hashEq))

\* C5 amended: VerifyCheckpoint returns InconsistentLastCommitHash exactly
\* when the candidate's epoch is the current epoch, both signatures are valid
\* under the current roster and the two LastCommitHash values differ; with
\* liveness tracking enabled the handler of such an event appends its record
\* to the checklist before it returns.
C5_InconsistentIffEpochSigsAndHash ==
    /\ [](obs.op = "verify"
            => (obs.res = Inconsistent
                  <=> (obs.epochOK /\ obs.sigOK /\ obs.bbnSigOK /\ ~obs.hashEq)))
    /\ [][\A t \in Callers :
            (pc[t] = "select" /\ pc'[t] # "select" /\ obs'.res = Inconsistent /\ cfgLiveness)
               => (pc'[t] = "addBad" /\ ckpt'[t] \in RawCheckpoints)]_vars
    /\ [][\A t \in Callers :
            (pc[t] = "addBad" /\ pc'[t] # "addBad")
               => (pc'[t] = "for" /\ checklist' = Append(checklist, ckpt[t]))]_vars

C5_Witness ==
    /\ cfgLiveness
    /\ obs.op = "add"
    /\ obs.res = Inconsistent
    /\ Len(checklist) = 1
    /\ checklist[1].epoch = 0

\* C6: at most one event loop is running and at most one Scanner start task
\* is running, whatever the interleaving of the calls of Start.
C6_NoDuplicateStart ==
    /\ Cardinality(InLoop) <= 1
    /\ scanRun <= 1

\* a call of Stop has returned
StopReturned == nStops >= 1 /\ stopPc # "l227"

\* C7 as stated: when Stop returns, the event loop has exited (no caller of
\* Start is inside the loop) and the Scanner's stop sequence has completed.
C7_StopWaitsForLoop ==
    obs.op = "stop-returned" => (InLoop = {} /\ scanStopped)

\* C7 amended: when Stop returns, the quit channel is closed and the
\* Scanner's stop sequence has completed.
C7_StopClosesAndStopsScanner ==
    /\ obs.op = "stop-returned" => (quit = "closed" /\ scanStopped)
    /\ StopReturned => (quit = "closed" /\ scanStopped)

C7_Witness ==
    /\ obs.op = "stop-returned"
    /\ InHandler # {}

\* C8: at most one checkpoint handler is in progress, so that no write of
\* curEpoch overlaps a handler that has read it.
C8_SingleHandler == Cardinality(InHandler) <= 1

\* C9: when the next-epoch query fails after a successful verification, the
\* handler returns an error and the current epoch and its roster are
\* unchanged, so that the next checkpoint of that epoch meets the same
\* EpochInfo.
C9_QueryFailureKeepsEpoch ==
    [][(obs'.op = "update" /\ ~obs'.queryOK)
          => (curEpoch' = curEpoch /\ obs'.err = "failed to update")]_vars

C9_Witness ==
    /\ obs.op = "update"
    /\ ~obs.queryOK
    /\ obs.err = "failed to update"
    /\ curEpoch = NewEpochInfo(1, EpochValSet(1))

C11_HeaderHandlingIsPure ==
    /\ [][obs'.op = "header"
            => /\ curEpoch' = curEpoch
               /\ checklist' = checklist
               /\ started' = started
               /\ quit' = quit]_vars
    /\ [](obs.op = "header"
            => /\ (obs.err = "HeaderNotRecognized") <=> (obs.res = "false")
               /\ (obs.err = "QueryFailure") <=> (obs.res = "QueryFailure")
               /\ (obs.err = "nil") <=> (obs.res = "true"))

C11_Witness ==
    /\ obs.op = "header"
    /\ obs.err = "HeaderNotRecognized"
    /\ curEpoch.num = 1
    /\ cfgLiveness
    /\ Len(checklist) = 1
    /\ started

\* every call of Start that got past the started check has returned, and at
\* least one did run the Scanner and the loop: the run loop is Stopped
Stopped == scanStarts >= 1 /\ \A t \in Callers : pc[t] = "idle"

\* C12: Stopped is terminal: once the run loop has exited and Start has
\* returned, no later call of Start starts the Scanner again, sets started
\* or puts a caller back into the loop (where events are handled).
C12_StoppedIsTerminal ==
    \A k \in 1..MaxStartCalls :
        []((Stopped /\ scanStarts = k)
              => [](scanStarts = k /\ ~started /\ InLoop = {}))

\* the orderings of one validator set
Orderings(vs) ==
    {p \in ValidatorSets :
        Len(p) = Len(vs) /\ {p[i] : i \in 1..Len(p)} = {vs[i] : i \in 1..Len(vs)}}

\* C13: GetSortedValSet is deterministic and idempotent: whenever it returns,
\* every ordering of the same validators gives the same sequence, sorting
\* the result again leaves it unchanged, and adjacent entries are in
\* non-decreasing order of their sort key (also when two distinct addresses
\* have the same key).
C13_SortIsCanonical ==
    sortedGenesis.state = "sorted"
       => /\ \A p \in Orderings(genesis) : GetSortedValSet(p) = sortedGenesis
          /\ GetSortedValSet(sortedGenesis.set) = sortedGenesis
          /\ \A i \in 1..(Len(sortedGenesis.set) - 1) :
                BigEndianToUint64(sortedGenesis.set[i])
                   <= BigEndianToUint64(sortedGenesis.set[i + 1])

\* C14: GetSortedValSet fails fatally (panics) whenever an address of the
\* input cannot be parsed, for validator sets of every size including one
\* validator: it never returns a validator set with an unparseable address.
C14_UnparseableAlwaysPanics ==
    (sortedGenesis.state # "pending" /\ \E i \in 1..Len(genesis) : ~genesis[i].ok)
       => sortedGenesis.state = "panic"

\* C15: VerifyCheckpoint applies its checks in the order epoch, BLS of the
\* BTC checkpoint, Babylon query, BLS of Babylon's checkpoint, hash, and the
\* first failing check decides the result: Babylon is asked exactly when the
\* epoch matches and the BTC checkpoint's signature is valid, and a
\* checkpoint with a wrong epoch gives InvalidEpochNum whatever its signature.
C15_ChecksInFixedOrder ==
    obs.op = "verify"
       => /\ obs.queried <=> (obs.epochOK /\ obs.sigOK)
          /\ ~obs.epochOK => obs.res = "InvalidEpochNum"
          /\ (obs.epochOK /\ ~obs.sigOK) => obs.res = "InvalidSig"
          /\ (obs.queried /\ ~obs.queryOK) => obs.res = "QueryFailure"
          /\ (obs.queried /\ obs.queryOK /\ ~obs.bbnSigOK) => obs.res = "InvalidSig"
          /\ (obs.queried /\ obs.queryOK /\ obs.bbnSigOK /\ ~obs.hashEq)
                => obs.res = Inconsistent
          /\ obs.res \in {"QueryFailure", Inconsistent, "nil"} => obs.queried

C15_Witness ==
    /\ obs.op = "verify"
    /\ ~obs.epochOK
    /\ ~obs.sigOK
    /\ ~obs.queried
    /\ obs.res = "InvalidEpochNum"
    /\ curEpoch.num = 1

\* the last step was a verification that ended in InconsistentLastCommitHash
ForkReported == obs.op = "verify" /\ obs.res = Inconsistent

\* C16: once a checkpoint event has resolved to InconsistentLastCommitHash
\* the monitor stops verification: from then on no further checkpoint is
\* verified (a verification report can only be the one of that event) and
\* the current epoch stays what it was.
C16_ForkStopsVerification ==
    \A e \in 0..(MaxEpoch + 1) : \A n \in 1..MaxEvents :
        []((ForkReported /\ curEpoch.num = e /\ nEvents = n)
              => [](curEpoch.num = e /\ (obs.op = "verify" => nEvents = n)))

\* a call of Start is in progress after Stop closed the quit channel
StopSignalled == quit = "closed" /\ \E t \in Callers : pc[t] # "idle"

\* every call of Start has returned
AllReturned == \A t \in Callers : pc[t] = "idle"

C18_LedgerEpochsOrdered ==
    /\ \A i \in 1..Len(checklist) : checklist[i].epoch <= curEpoch.num
    /\ \A i, j \in 1..Len(checklist) :
          i < j => checklist[i].epoch <= checklist[j].epoch

\* C19: with the liveness checker enabled a successfully verified checkpoint
\* is in the checklist before the next epoch is asked for, so a failed
\* next-epoch query leaves the record in place and the epoch unchanged; the
\* checklist never loses a record, and every successful verification appends
\* one record, also when a record for the same epoch is there already.
C19_RecordedBeforeAdvance ==
    /\ [](\A t \in Callers :
            (cfgLiveness /\ pc[t] \in {"l135", "l136"})
               => \E i \in 1..Len(checklist) : checklist[i] = ckpt[t])
    /\ [][(obs'.op = "update" /\ ~obs'.queryOK)
            => (checklist' = checklist /\ curEpoch' = curEpoch)]_vars
    /\ [][(cfgLiveness /\ obs'.op = "verify" /\ obs'.res = "nil")
            => \E t \in Callers : pc[t] = "select" /\ pc'[t] = "addOk"]_vars
    /\ [][\A t \in Callers :
            (pc[t] = "addOk" /\ pc'[t] # "addOk")
               => (checklist' = Append(checklist, ckpt[t]) /\ pc'[t] = "l135")]_vars
    /\ [][checklist' # checklist
            => \E t \in Callers : checklist' = Append(checklist, ckpt[t])]_vars

C19_Witness ==
    /\ obs.op = "add"
    /\ obs.res = "nil"
    /\ nCalls = 1
    /\ curEpoch.num = 0
    /\ Len(checklist) = 2
    /\ checklist[1] = checklist[2]

\* C20: Stop is not idempotent: the second call of Stop, whether or not Start
\* was ever called, ends in a panic (close of the closed quit channel) and
\* does not return, while the first call never panics; once quit is closed,
\* also by a Stop made before Start, a caller of Start at the select can take
\* the quit case, and a caller leaves the loop only with quit closed.
C20_SecondStopPanics ==
    /\ [](panicked <=> nStops >= 2)
    /\ [][(nStops' = nStops + 1 /\ nStops >= 1)
            => (panicked' /\ stopPc' = "panicked")]_vars
    /\ [](\A t \in Callers :
            (pc[t] = "select" /\ quit = "closed" /\ ~panicked)
               => ENABLED SelectQuit(t))
    /\ [][\A t \in Callers :
            (pc[t] = "for" /\ pc'[t] = "wait") => quit = "closed"]_vars

C20_Witness ==
    /\ panicked
    /\ nStops = 2
    /\ nCalls = 0
    /\ scanStarts = 0
    /\ quit = "closed"

TypeOK ==
    /\ cfgLiveness \in BOOLEAN
    /\ curEpoch \in EpochInfos
    /\ checklist \in Seq(RawCheckpoints)
    /\ started \in BOOLEAN
    /\ quit \in {"open", "closed"}
    /\ wg \in Nat
    /\ \A t \in Callers : pc[t] \in {"idle", "l66", "l70", "l73", "wait"} \cup LoopPcs
    /\ \A t \in Callers : ckpt[t] \in RawCheckpoints \cup {NoCkpt}
    /\ \A t \in Callers : nextEpochNum[t] \in 0..(MaxEpoch + 2)
    /\ panicked \in BOOLEAN
    /\ evLimit \in {MaxEvents, MaxEvents + 1}
    /\ Len(genesis) <= MaxValidators
    /\ sortedGenesis.state \in {"pending", "sorted", "panic"}

====
